---- MODULE Spec2Model ----
(***************************************************************************)
(* A model of the RAG experiment harness:                                  *)
(*   - wait_for_task_completion, the task poller (opensearch_setup.py)     *)
(*   - query_gemma3_model / query_gemma3_model_with_rag (query_ollama.py)  *)
(*   - compare_answers_with_gemma, the answer judge (qa_test_runner.py)    *)
(*   - setup_opensearch_indexes, the provisioning run (opensearch_setup.py)*)
(* Strings are sequences of symbols; None is the value NoneVal and a key   *)
(* missing from a response is the value Absent.  Time is in seconds.       *)
(***************************************************************************)
EXTENDS Integers, Sequences, FiniteSets, TLC

NoneVal == "None"
\* None where a string is expected (strings are sequences)
NoneSeq == <<"<None>">>
Absent == "<absent>"

\* ------------------------------------------------------------------------
\* Program constants
\* ------------------------------------------------------------------------
DefaultTimeout == 300
PollInterval == 5

\* ------------------------------------------------------------------------
\* Bounds of the model
\* ------------------------------------------------------------------------
\* a status fetch takes 0..MaxFetchDur seconds of wall time
MaxFetchDur == 1

VARIABLES
    \* wall clock, time.time()
    now,
    \* wait_for_task_completion: position, arguments, locals, outcome
    wpc, operation, wModelArg, start_time, lastResp, wres,
    \* instrumentation of the poller: status fetches, sleeps and non-terminal
    \* observations of this call, whether all of those reported RUNNING, and
    \* the elapsed time the loop head last compared with the timeout
    fetches, sleeps, nonTerm, allRunning, lastCheck,
    \* the process environment variable OPENSEARCH_MODEL_ID
    envModelId,
    \* query_gemma3_model_with_rag: position, argument, locals, outcome
    rpc, question, hits, context_passages, rag_prompt, rresult, rraised,
    \* requests sent to the search engine and to the generation backend, why the
    \* grounded path was left, and what the fallback query returned
    searchReqs, chatReqs, failure, fbPrompt, fbResult,
    \* how each call of the generation backend ended, in the order of the calls
    chatLog,
    \* compare_answers_with_gemma: position, the judge's reply, the verdict
    jpc, comparison_result, verdict,
    \* setup_opensearch_indexes: position, the model id it holds, the exception
    \* that left it; the steps begun (in order) and those that succeeded
    spc, model_id, serr, steps, okSteps,
    \* the registration and deployment requests sent, and the model id the
    \* deployment request and the ingest pipeline were given
    regRequests, deployRequests, deployModelId, pipelineModelId,
    \* verify_model_ready: position, start_time, last model_state, fetches, sleeps
    vpc, vstart, vLast, vfetches, vsleeps,
    \* ingest_wikipedia_dataset: documents of the dataset, the loop index i,
    \* total_ingested, and the bulk requests sent (size and outcome of each)
    numDocs, batchStart, total_ingested, bulkLog,
    \* run_qa_test: position, test_data, the answer_pairs being built by
    \* evaluate_with_ollama, and what the two evaluations returned
    qpc, qa_samples, answer_pairs, regular_results, rag_results,
    \* calculate_accuracy: the place in the loop, correct_count, the pairs sent
    \* to the judge with their verdicts, and what the two calls returned
    acc_i, correct_count, judged, regular_acc, rag_acc,
    \* the divisor of the relative improvement or decline, and the exception
    \* that left run_qa_test
    relDivisor, qerr

pollVars == <<now, wpc, operation, wModelArg, start_time, lastResp, wres,
              fetches, sleeps, nonTerm, allRunning, lastCheck>>

ragVars == <<rpc, question, hits, context_passages, rag_prompt, rresult, rraised,
             searchReqs, chatReqs, failure, fbPrompt, fbResult, chatLog>>

judgeVars == <<jpc, comparison_result, verdict>>

setupVars == <<spc, model_id, serr, steps, okSteps,
               regRequests, deployRequests, deployModelId, pipelineModelId,
               vpc, vstart, vLast, vfetches, vsleeps,
               numDocs, batchStart, total_ingested, bulkLog>>

qaVars == <<qpc, qa_samples, answer_pairs, regular_results, rag_results,
            acc_i, correct_count, judged, regular_acc, rag_acc, relDivisor, qerr>>

vars == <<pollVars, envModelId, ragVars, judgeVars, setupVars, qaVars>>

NoFallback == <<"<no fallback>">>

NoError == [kind |-> "none", value |-> NoneVal]

\* the state of a component that is not running in the specification at hand
NoResult == [kind |-> "none", value |-> NoneVal]

NoResponse == [state |-> "<none yet>", model_id |-> Absent, error |-> Absent]

PollIdle ==
    /\ now = 0
    /\ wpc = "idle"
    /\ operation = NoneVal
    /\ wModelArg = NoneVal
    /\ start_time = 0
    /\ lastResp = NoResponse
    /\ wres = NoResult
    /\ fetches = 0
    /\ sleeps = 0
    /\ nonTerm = 0
    /\ allRunning = TRUE
    /\ lastCheck = 0

RagIdle ==
    /\ rpc = "idle"
    /\ question = <<>>
    /\ hits = <<>>
    /\ context_passages = <<>>
    /\ rag_prompt = <<>>
    /\ rresult = NoneSeq
    /\ rraised = FALSE
    /\ searchReqs = <<>>
    /\ chatReqs = <<>>
    /\ chatLog = <<>>
    /\ failure = "none"
    /\ fbPrompt = <<>>
    /\ fbResult = NoFallback

JudgeIdle ==
    /\ jpc = "idle"
    /\ comparison_result = NoneSeq
    /\ verdict = NoneVal

SetupIdle ==
    /\ spc = "idle"
    /\ model_id = NoneVal
    /\ serr = NoError
    /\ steps = <<>>
    /\ okSteps = {}
    /\ regRequests = 0
    /\ deployRequests = 0
    /\ deployModelId = NoneVal
    /\ pipelineModelId = NoneVal
    /\ vpc = "idle"
    /\ vstart = 0
    /\ vLast = NoneVal
    /\ vfetches = 0
    /\ vsleeps = 0
    /\ numDocs = 0
    /\ batchStart = 0
    /\ total_ingested = 0
    /\ bulkLog = <<>>

\* what evaluate_with_ollama returns for no samples (line 85)
EmptyResults ==
    [answer_pairs |-> <<>>, total_questions |-> 0, correct_count |-> 0, percentage |-> 0]

\* a percentage is kept as the fraction num / den
ZeroPercent == [num |-> 0, den |-> 1]

\* what calculate_accuracy returns for no answer pairs (line 172)
NoAccuracy == [total |-> 0, correct |-> 0, percentage |-> ZeroPercent]

\* no relative improvement or decline has been computed
NoDivisor == [num |-> -1, den |-> 1]

QaIdle ==
    /\ qpc = "idle"
    /\ qa_samples = <<>>
    /\ answer_pairs = <<>>
    /\ regular_results = EmptyResults
    /\ rag_results = EmptyResults
    /\ acc_i = 0
    /\ correct_count = 0
    /\ judged = <<>>
    /\ regular_acc = NoAccuracy
    /\ rag_acc = NoAccuracy
    /\ relDivisor = NoDivisor
    /\ qerr = "none"

\* ------------------------------------------------------------------------
\* Task status responses (GET /_plugins/_ml/tasks/{task_id})
\* ------------------------------------------------------------------------
ModelIds == {"m1", "m2"}
ErrorMsgs == {"out of memory"}
NonTerminalStates == {"CREATED", "RUNNING"}

TransportErr == [state |-> "<raised>", model_id |-> Absent, error |-> Absent]

TaskResponses ==
    [state : NonTerminalStates \cup {Absent}, model_id : {Absent}, error : {Absent}]
    \cup [state : {"COMPLETED"}, model_id : ModelIds \cup {Absent}, error : {Absent}]
    \cup [state : {"FAILED"}, model_id : {Absent}, error : ErrorMsgs \cup {Absent}]

\* dict.get(key) and dict.get(key, default)
Get(v) == IF v = Absent THEN NoneVal ELSE v
GetDefault(v, d) == IF v = Absent THEN d ELSE v

\* what one loop iteration does with the response of the status fetch
TaskOutcomeReturnsArg(op, mid, response) ==
    LET state == Get(response.state) IN
    IF state = "COMPLETED" /\ op \in {"registration", "deployment"}
        THEN [kind |-> "return", value |-> mid]
    ELSE IF state = "FAILED"
        THEN [kind |-> "Exception",
              value |-> <<"Model ", op, " failed: ",
                          GetDefault(response.error, "Unknown error")>>]
    ELSE [kind |-> "sleep", value |-> NoneVal]

TaskOutcomeIgnoresFailed(op, mid, response) ==
    LET state == Get(response.state) IN
    IF state = "COMPLETED" /\ op = "registration"
        THEN [kind |-> "return", value |-> Get(response.model_id)]
    ELSE IF state = "COMPLETED" /\ op = "deployment"
        THEN [kind |-> "return", value |-> mid]
    ELSE [kind |-> "sleep", value |-> NoneVal]

TaskOutcome(op, mid, response) ==
    LET state == Get(response.state) IN
    IF state = "COMPLETED" /\ op = "registration"
        THEN [kind |-> "return", value |-> Get(response.model_id)]
    ELSE IF state = "COMPLETED" /\ op = "deployment"
        THEN [kind |-> "return", value |-> mid]
    ELSE IF state = "FAILED"
        THEN [kind |-> "Exception",
              value |-> <<"Model ", op, " failed: ",
                          GetDefault(response.error, "Unknown error")>>]
    ELSE [kind |-> "sleep", value |-> NoneVal]

\* ------------------------------------------------------------------------
\* wait_for_task_completion
\* ------------------------------------------------------------------------
\* start_time = time.time()
WaitStart ==
    /\ wpc = "start"
    /\ start_time' = now
    /\ wpc' = "check"
    /\ UNCHANGED <<now, operation, wModelArg, lastResp, wres,
                   fetches, sleeps, nonTerm, allRunning, lastCheck>>
    /\ UNCHANGED <<envModelId, ragVars, judgeVars, qaVars, setupVars>>

\* while time.time() - start_time < timeout
LoopConditionLate(t, s) == t - s <= DefaultTimeout

LoopCondition(t, s) == t - s < DefaultTimeout

\* the loop head; the TimeoutError after the loop
WaitCheck ==
    /\ wpc = "check"
    /\ lastCheck' = now - start_time
    /\ IF LoopCondition(now, start_time)
          THEN /\ wpc' = "fetch"
               /\ wres' = wres
          ELSE /\ wpc' = "done"
               /\ wres' = [kind |-> "TimeoutError",
                           value |-> <<"Model ", operation, " timed out after ",
                                       ToString(DefaultTimeout), " seconds">>]
    /\ UNCHANGED <<now, operation, wModelArg, start_time, lastResp,
                   fetches, sleeps, nonTerm, allRunning>>
    /\ UNCHANGED <<envModelId, ragVars, judgeVars, qaVars, setupVars>>

\* client.transport.perform_request('GET', task) and the branch on its state
WaitFetch(durations, responses) ==
    /\ wpc = "fetch"
    /\ \E d \in durations, response \in responses :
          /\ now' = now + d
          /\ fetches' = fetches + 1
          /\ IF response = TransportErr
                THEN /\ wpc' = "done"
                     /\ wres' = [kind |-> "TransportError", value |-> NoneVal]
                     /\ UNCHANGED <<lastResp, nonTerm, allRunning>>
                ELSE LET out == TaskOutcome(operation, wModelArg, response) IN
                     /\ lastResp' = response
                     /\ IF out.kind = "sleep"
                           THEN /\ wpc' = "sleep"
                                /\ nonTerm' = nonTerm + 1
                                /\ allRunning' = (allRunning /\ response.state = "RUNNING")
                                /\ wres' = wres
                           ELSE /\ wpc' = "done"
                                /\ UNCHANGED <<nonTerm, allRunning>>
                                /\ wres' = out
    /\ UNCHANGED <<operation, wModelArg, start_time, sleeps, lastCheck>>
    /\ UNCHANGED <<envModelId, ragVars, judgeVars, qaVars, setupVars>>

\* time.sleep(5)
WaitSleepSkipped ==
    /\ wpc = "sleep"
    /\ wpc' = "check"
    /\ UNCHANGED <<now, sleeps, operation, wModelArg, start_time, lastResp, wres,
                   fetches, nonTerm, allRunning, lastCheck>>
    /\ UNCHANGED <<envModelId, ragVars, judgeVars, qaVars, setupVars>>

WaitSleep ==
    /\ wpc = "sleep"
    /\ now' = now + PollInterval
    /\ sleeps' = sleeps + 1
    /\ wpc' = "check"
    /\ UNCHANGED <<operation, wModelArg, start_time, lastResp, wres,
                   fetches, nonTerm, allRunning, lastCheck>>
    /\ UNCHANGED <<envModelId, ragVars, judgeVars, qaVars, setupVars>>

\* ------------------------------------------------------------------------
\* The poller on its own: one call of wait_for_task_completion
\* ------------------------------------------------------------------------
StartTimes == {0, 7}

FetchDurations == 0 .. MaxFetchDur

InitPoller ==
    /\ now \in StartTimes
    /\ wpc = "start"
    /\ \/ operation = "registration" /\ wModelArg = NoneVal
       \/ operation = "deployment" /\ wModelArg \in ModelIds
    /\ start_time = 0
    /\ lastResp = NoResponse
    /\ wres = NoResult
    /\ fetches = 0
    /\ sleeps = 0
    /\ nonTerm = 0
    /\ allRunning = TRUE
    /\ lastCheck = 0
    /\ envModelId = NoneVal
    /\ RagIdle
    /\ JudgeIdle
    /\ SetupIdle
    /\ QaIdle

PollerFetch == WaitFetch(FetchDurations, TaskResponses \cup {TransportErr})

NextPoller ==
    \/ WaitStart
    \/ WaitCheck
    \/ PollerFetch
    \/ WaitSleep

SpecPoller == InitPoller /\ [][NextPoller]_vars

\* the interpreter runs the loop: every enabled step is eventually taken
SpecPollerFair == SpecPoller /\ WF_vars(NextPoller)

\* ------------------------------------------------------------------------
\* Claims about wait_for_task_completion (checked under SpecPoller)
\* ------------------------------------------------------------------------
Observed == lastResp # NoResponse
TerminalObserved == lastResp.state \in {"COMPLETED", "FAILED"}
Elapsed == now - start_time

\* C1: for a registration task, the first status fetch that reports COMPLETED
\* ends the call: it returns the model identifier of that very response, and
\* neither a sleep nor another fetch follows the observation, whatever
\* non-terminal states were observed before it.
C1_CompletedReturnsModelId ==
    (operation = "registration" /\ lastResp.state = "COMPLETED") =>
        /\ wpc = "done"
        /\ wres = [kind |-> "return", value |-> Get(lastResp.model_id)]
        /\ fetches = nonTerm + 1
        /\ sleeps = nonTerm

C1_Witness ==
    /\ operation = "registration"
    /\ lastResp.state = "COMPLETED"
    /\ lastResp.model_id = "m2"
    /\ nonTerm = 3
    /\ wres = [kind |-> "return", value |-> "m2"]

\* C2: the first status fetch that reports FAILED ends the call with an
\* exception whose message carries the error the task reported; no status
\* fetch and no sleep follows the observation.
C2_FailedRaisesAtOnce ==
    lastResp.state = "FAILED" =>
        /\ wpc = "done"
        /\ wres.kind = "Exception"
        /\ lastResp.error # Absent => wres.value[4] = lastResp.error
        /\ wres.value[2] = operation
        /\ fetches = nonTerm + 1
        /\ sleeps = nonTerm

C2_Witness ==
    /\ lastResp.state = "FAILED"
    /\ lastResp.error = "out of memory"
    /\ nonTerm = 2
    /\ sleeps = 2
    /\ wres.kind = "Exception"
    /\ wres.value[4] = "out of memory"

\* C3: the TimeoutError is raised exactly by a loop-head test that finds the
\* elapsed wall time >= the timeout, never earlier and never after a terminal
\* state was observed; the call always ends, and a call whose every status
\* fetch answered with a non-terminal state ends with the TimeoutError.
TimeoutOnlyWhenElapsed ==
    /\ (wres.kind = "TimeoutError") <=> (lastCheck >= DefaultTimeout)
    /\ wres.kind = "TimeoutError" =>
          /\ Elapsed >= DefaultTimeout
          /\ ~TerminalObserved
          /\ wpc = "done"
    /\ wpc \in {"fetch", "sleep"} => lastCheck < DefaultTimeout

NonTerminalEndsInTimeout ==
    (wpc = "done" /\ ~TerminalObserved /\ wres.kind # "TransportError") =>
        wres.kind = "TimeoutError"

C3_TimeoutExactly ==
    /\ []TimeoutOnlyWhenElapsed
    /\ []NonTerminalEndsInTimeout
    /\ <>(wpc = "done")

C3_Witness ==
    /\ wpc = "done"
    /\ wres.kind = "TimeoutError"
    /\ Elapsed > DefaultTimeout
    /\ nonTerm = sleeps
    /\ sleeps >= 59

\* C4: one sleep follows each non-terminal observation and nothing else ends
\* the loop: at the loop head sleeps = fetches = non-terminal observations, a
\* call that returns after n non-terminal observations made n sleeps and n+1
\* fetches, and a call never ends on a non-terminal observation (only the
\* timeout or an error of the fetch itself ends it).
C4_OneSleepPerObservation ==
    /\ wpc \in {"check", "fetch"} => (sleeps = nonTerm /\ fetches = nonTerm)
    /\ wpc = "sleep" => (nonTerm = sleeps + 1 /\ fetches = nonTerm)
    /\ (wpc = "done" /\ wres.kind = "return") =>
          (lastResp.state = "COMPLETED" /\ sleeps = nonTerm /\ fetches = nonTerm + 1)
    /\ (wpc = "done" /\ Observed /\ ~TerminalObserved) =>
          wres.kind \in {"TimeoutError", "TransportError"}
    /\ now >= start_time + PollInterval * sleeps

C4_Witness ==
    /\ operation = "registration"
    /\ allRunning
    /\ nonTerm = 2
    /\ lastResp.state = "COMPLETED"
    /\ lastResp.model_id = "m1"
    /\ sleeps = 2
    /\ fetches = 3
    /\ wres = [kind |-> "return", value |-> "m1"]

\* ------------------------------------------------------------------------
\* Strings of the query pipeline: sequences of symbols
\* ------------------------------------------------------------------------
TruncLen == 300

\* retrieved passages have TruncLen-1 .. TruncLen+MaxOver characters, the last
\* few of them full stops (at most as many as the marker has); a search
\* returns at most MaxHits hits
MaxOver == 3
MaxHits == 2

NL == "\n"
Indent12 == "            "
Indent8 == "        "
Marker == <<".", ".", ".">>
AnswerInstruction ==
    "Answer in a single word or a short sentence. Do not ask follow-up questions or make suggestions."
GroundingInstruction ==
    "Using the CONTEXT provided, answer the QUESTION. Keep your answer grounded in the facts of the CONTEXT. If the CONTEXT doesn't contain the answer to the QUESTION, say you don't know."

Min(a, b) == IF a < b THEN a ELSE b

Fill(c, n) == [i \in 1 .. n |-> c]

\* s[:n]
Prefix(s, n) == SubSeq(s, 1, Min(n, Len(s)))

\* t in s, for strings
Contains(s, t) ==
    \/ t = <<>>
    \/ \E k \in 0 .. (Len(s) - Len(t)) :
          s[k + 1] = t[1] /\ SubSeq(s, k + 1, k + Len(t)) = t

\* the passage put into the context (query_gemma3_model_with_rag, lines 79-80)
TruncateNoMarker(passage) ==
    IF Len(passage) > TruncLen THEN Prefix(passage, TruncLen) ELSE passage

Truncate(passage) ==
    IF Len(passage) > TruncLen THEN Prefix(passage, TruncLen) \o Marker ELSE passage

\* a hit of the search response: its passage, or no '_source'/'passage' key
NoPassage == <<"<no passage>">>

RECURSIVE ContextPassages(_)
ContextPassages(hs) ==
    IF hs = <<>> THEN <<>>
    ELSE IF Head(hs) = NoPassage THEN ContextPassages(Tail(hs))
    ELSE <<Truncate(Head(hs))>> \o ContextPassages(Tail(hs))

\* "\n\n".join([f"Context {i+1}: {passage}" ...])
RECURSIVE JoinContext(_, _)
JoinContext(cps, i) ==
    IF i > Len(cps) THEN <<>>
    ELSE (IF i > 1 THEN <<NL, NL>> ELSE <<>>)
         \o <<"Context ", ToString(i), ": ">> \o cps[i] \o JoinContext(cps, i + 1)

ContextText(cps) == JoinContext(cps, 1)

\* the two f-strings of query_gemma3_model_with_rag
GroundedPrompt(prompt, cps) ==
    <<NL, Indent12, "QUESTION:", NL, Indent12>> \o prompt
    \o <<NL, NL, Indent12, "CONTEXT:", NL, Indent12>> \o ContextText(cps)
    \o <<NL, NL, Indent12, GroundingInstruction, NL, Indent12, AnswerInstruction,
         NL, Indent12>>

NoContextPrompt(prompt) ==
    <<NL, Indent12>> \o prompt \o <<NL, NL, Indent12, AnswerInstruction, NL, Indent8>>

RagPrompt(prompt, cps) ==
    IF cps # <<>> THEN GroundedPrompt(prompt, cps) ELSE NoContextPrompt(prompt)

\* the prompt of the non-RAG path (evaluate_with_ollama, use_rag=False)
FormattedPrompt(q) == q \o <<NL, NL, AnswerInstruction>>

\* ------------------------------------------------------------------------
\* The environment of one query
\* ------------------------------------------------------------------------
Questions == {<<"Who", " ", "wrote", " ", "it", "?">>, <<"Why", "?", NL, "When", "?">>}

PassageLens == (TruncLen - 1) .. (TruncLen + MaxOver)

Passages ==
    {Fill("a", n - d) \o Fill(".", d) : n \in PassageLens, d \in 0 .. Len(Marker)}

HitChoices == Passages \cup {NoPassage}

HitLists == UNION {[1 .. n -> HitChoices] : n \in 0 .. MaxHits}

\* what a chat call gives: the content of a well-formed response, a response
\* of an unexpected shape, or an exception (of the client, or of the call)
Contents == {<<"Paris">>, <<>>}

ChatFailures == [kind : {"malformed", "raise", "client raise"}, content : {<<>>}]

ChatOutcomesOf(contents) == [kind : {"ok"}, content : contents] \cup ChatFailures

ChatOutcomes == ChatOutcomesOf(Contents)

\* ------------------------------------------------------------------------
\* query_gemma3_model: the value returned for an outcome of the chat call
\* ------------------------------------------------------------------------
QueryGemma3Result(outcome) ==
    IF outcome.kind = "ok" THEN outcome.content ELSE NoneSeq

\* the requests after query_gemma3_model(prompt) met `outcome`
ChatSent(reqs, prompt, outcome) ==
    IF outcome.kind = "client raise" THEN reqs ELSE Append(reqs, prompt)

\* ------------------------------------------------------------------------
\* query_gemma3_model_with_rag
\* ------------------------------------------------------------------------
\* a response of unexpected shape read as an empty answer
ChatContentNeverNone(outcome) == outcome.content

\* the value returned for the response of the grounded chat call (lines 119-123)
ChatContent(outcome) ==
    IF outcome.kind = "ok" THEN outcome.content ELSE NoneSeq

\* create_opensearch_client(...)
RagCreateClient ==
    /\ rpc = "start"
    /\ \E ok \in BOOLEAN :
          IF ok THEN /\ rpc' = "ping"
                     /\ failure' = failure
                ELSE /\ rpc' = "fallback"
                     /\ failure' = "client"
    /\ UNCHANGED <<question, hits, context_passages, rag_prompt, rresult, rraised,
                   searchReqs, chatReqs, chatLog, fbPrompt, fbResult>>
    /\ UNCHANGED <<pollVars, envModelId, judgeVars, qaVars, setupVars>>

\* if not opensearch_client.ping(): ... return query_gemma3_model(prompt, ...)
RagPingIgnored ==
    /\ rpc = "ping"
    /\ \E up \in {"true", "false", "<raise>"} :
          IF up = "<raise>"
             THEN /\ rpc' = "fallback"
                  /\ failure' = "ping raise"
             ELSE /\ rpc' = "search"
                  /\ failure' = (IF up = "true" THEN failure ELSE "ping false")
    /\ UNCHANGED <<question, hits, context_passages, rag_prompt, rresult, rraised,
                   searchReqs, chatReqs, chatLog, fbPrompt, fbResult>>
    /\ UNCHANGED <<pollVars, envModelId, judgeVars, qaVars, setupVars>>

RagPing ==
    /\ rpc = "ping"
    /\ \E up \in {"true", "false", "<raise>"} :
          IF up = "true"
             THEN /\ rpc' = "search"
                  /\ failure' = failure
             ELSE /\ rpc' = "fallback"
                  /\ failure' = (IF up = "false" THEN "ping false" ELSE "ping raise")
    /\ UNCHANGED <<question, hits, context_passages, rag_prompt, rresult, rraised,
                   searchReqs, chatReqs, chatLog, fbPrompt, fbResult>>
    /\ UNCHANGED <<pollVars, envModelId, judgeVars, qaVars, setupVars>>

\* the search sent whatever the environment variable holds
RagSearchUnchecked ==
    /\ rpc = "search"
    /\ searchReqs' = Append(searchReqs,
           [query_text |-> question, model_id |-> envModelId, k |-> 10, size |-> 10])
    /\ \/ /\ rpc' = "fallback"
          /\ failure' = "search"
          /\ UNCHANGED <<hits, context_passages, rag_prompt>>
       \/ \E hs \in HitLists :
             /\ hits' = hs
             /\ context_passages' = ContextPassages(hs)
             /\ rag_prompt' = RagPrompt(question, ContextPassages(hs))
             /\ rpc' = "chat"
             /\ failure' = failure
    /\ UNCHANGED <<question, rresult, rraised, chatReqs, chatLog, fbPrompt, fbResult>>
    /\ UNCHANGED <<pollVars, envModelId, judgeVars, qaVars, setupVars>>

\* search_wikipedia_articles(opensearch_client, query_text=prompt, k=10, size=10),
\* then the extraction of the passages and the building of the prompt
RagSearch ==
    /\ rpc = "search"
    /\ IF envModelId \in {NoneVal, ""}
          THEN \* raise ValueError("OPENSEARCH_MODEL_ID environment variable not set")
               /\ rpc' = "fallback"
               /\ failure' = "no model id"
               /\ UNCHANGED <<hits, context_passages, rag_prompt, searchReqs>>
          ELSE /\ searchReqs' = Append(searchReqs,
                      [query_text |-> question, model_id |-> envModelId,
                       k |-> 10, size |-> 10])
               /\ \/ /\ rpc' = "fallback"
                     /\ failure' = "search"
                     /\ UNCHANGED <<hits, context_passages, rag_prompt>>
                  \/ \E hs \in HitLists :
                        /\ hits' = hs
                        /\ context_passages' = ContextPassages(hs)
                        /\ rag_prompt' = RagPrompt(question, ContextPassages(hs))
                        /\ rpc' = "chat"
                        /\ failure' = failure
    /\ UNCHANGED <<question, rresult, rraised, chatReqs, chatLog, fbPrompt, fbResult>>
    /\ UNCHANGED <<pollVars, envModelId, judgeVars, qaVars, setupVars>>

\* ollama.Client(host=host); client.chat(... rag_prompt ...); the except clause
RagChatPropagates ==
    /\ rpc = "chat"
    /\ \E outcome \in ChatOutcomes :
          /\ chatReqs' = ChatSent(chatReqs, rag_prompt, outcome)
          /\ chatLog' = Append(chatLog, outcome.kind)
          /\ rpc' = "done"
          /\ IF outcome.kind \in {"raise", "client raise"}
                THEN /\ failure' = "chat"
                     /\ rraised' = TRUE
                     /\ rresult' = rresult
                ELSE /\ rresult' = ChatContent(outcome)
                     /\ UNCHANGED <<failure, rraised>>
    /\ UNCHANGED <<question, hits, context_passages, rag_prompt, searchReqs, fbPrompt, fbResult>>
    /\ UNCHANGED <<pollVars, envModelId, judgeVars, qaVars, setupVars>>

RagChat ==
    /\ rpc = "chat"
    /\ \E outcome \in ChatOutcomes :
          /\ chatReqs' = ChatSent(chatReqs, rag_prompt, outcome)
          /\ chatLog' = Append(chatLog, outcome.kind)
          /\ IF outcome.kind \in {"raise", "client raise"}
                THEN /\ rpc' = "fallback"
                     /\ failure' = "chat"
                     /\ rresult' = rresult
                ELSE /\ rpc' = "done"
                     /\ rresult' = ChatContent(outcome)
                     /\ failure' = failure
    /\ UNCHANGED <<question, hits, context_passages, rag_prompt, rraised,
                   searchReqs, fbPrompt, fbResult>>
    /\ UNCHANGED <<pollVars, envModelId, judgeVars, qaVars, setupVars>>

\* the fallback sending the prompt of the non-RAG evaluation path
RagFallbackFormatted ==
    /\ rpc = "fallback"
    /\ \E outcome \in ChatOutcomes :
          /\ chatReqs' = ChatSent(chatReqs, FormattedPrompt(question), outcome)
          /\ chatLog' = Append(chatLog, outcome.kind)
          /\ fbPrompt' = FormattedPrompt(question)
          /\ fbResult' = QueryGemma3Result(outcome)
          /\ rresult' = QueryGemma3Result(outcome)
    /\ rpc' = "done"
    /\ UNCHANGED <<question, hits, context_passages, rag_prompt, rraised,
                   searchReqs, failure>>
    /\ UNCHANGED <<pollVars, envModelId, judgeVars, qaVars, setupVars>>

\* return query_gemma3_model(prompt, model, host): lines 67 and 128
RagFallback ==
    /\ rpc = "fallback"
    /\ \E outcome \in ChatOutcomes :
          /\ chatReqs' = ChatSent(chatReqs, question, outcome)
          /\ chatLog' = Append(chatLog, outcome.kind)
          /\ fbPrompt' = question
          /\ fbResult' = QueryGemma3Result(outcome)
          /\ rresult' = QueryGemma3Result(outcome)
    /\ rpc' = "done"
    /\ UNCHANGED <<question, hits, context_passages, rag_prompt, rraised,
                   searchReqs, failure>>
    /\ UNCHANGED <<pollVars, envModelId, judgeVars, qaVars, setupVars>>

InitRag ==
    /\ PollIdle
    /\ envModelId \in {NoneVal, "", "m1"}
    /\ rpc = "start"
    /\ question \in Questions
    /\ hits = <<>>
    /\ context_passages = <<>>
    /\ rag_prompt = <<>>
    /\ rresult = NoneSeq
    /\ rraised = FALSE
    /\ searchReqs = <<>>
    /\ chatReqs = <<>>
    /\ chatLog = <<>>
    /\ failure = "none"
    /\ fbPrompt = <<>>
    /\ fbResult = NoFallback
    /\ JudgeIdle
    /\ SetupIdle
    /\ QaIdle

NextRag ==
    \/ RagCreateClient
    \/ RagPing
    \/ RagSearch
    \/ RagChat
    \/ RagFallback

SpecRag == InitRag /\ [][NextRag]_vars

\* ------------------------------------------------------------------------
\* Claims about query_gemma3_model_with_rag (checked under SpecRag)
\* ------------------------------------------------------------------------
\* C5: no failure leaves the function.  Whenever the grounded path fails
\* (client creation, ping, missing model id, search, chat call) the function
\* goes on to query_gemma3_model with the original question alone, and what
\* that query returns is what the function returns.
C5_FailureFallsBack ==
    /\ ~rraised
    /\ failure # "none" => rpc \in {"fallback", "done"}
    /\ (rpc = "done" /\ failure # "none") =>
          /\ fbPrompt = question
          /\ fbResult # NoFallback
          /\ rresult = fbResult
          /\ chatReqs # <<>> =>
                chatReqs[Len(chatReqs)] \in {question, rag_prompt}
          /\ Len(chatReqs) = 2 => chatReqs[2] = question

C5_Witness ==
    /\ rpc = "done"
    /\ failure = "chat"
    /\ context_passages # <<>>
    /\ chatReqs = <<rag_prompt, question>>
    /\ rresult = <<"Paris">>
    /\ ~rraised

\* C6: when ping() answers false no search request is sent; the question goes
\* to query_gemma3_model as it is and that result is returned, nothing raised.
C6_PingFalseFallsBack ==
    failure = "ping false" =>
        /\ searchReqs = <<>>
        /\ rpc \in {"fallback", "done"}
        /\ ~rraised
        /\ rpc = "fallback" => chatReqs = <<>>
        /\ rpc = "done" =>
              /\ fbPrompt = question
              /\ rresult = fbResult
              /\ chatReqs \in {<<>>, <<question>>}

C6_Witness ==
    /\ rpc = "done"
    /\ failure = "ping false"
    /\ envModelId = "m1"
    /\ searchReqs = <<>>
    /\ chatReqs = <<question>>
    /\ rresult = <<"Paris">>

\* the prompt without the fixed instruction sentence
StripBoilerplate(s) == SelectSeq(s, LAMBDA x : x # AnswerInstruction)

\* C7: with zero retrieved passages the prompt sent by the RAG path equals,
\* symbol for symbol once the fixed instruction sentence is taken out of both,
\* the prompt the non-RAG path sends for the same question.
C7_ZeroPassagesSamePrompt ==
    (rpc = "done" /\ failure = "none" /\ context_passages = <<>> /\ chatReqs # <<>>) =>
        StripBoilerplate(chatReqs[1]) = StripBoilerplate(FormattedPrompt(question))

\* the place among the context passages of the passage of hit i
EntryIndex(hs, i) == Cardinality({j \in 1 .. i : hs[j] # NoPassage})

\* "Context k: <e>" followed by the blank line that ends every entry
EntryIn(prompt, k, e) ==
    Contains(prompt, <<"Context ", ToString(k), ": ">> \o e \o <<NL, NL>>)

IsMarkerPrefix(t) == Len(t) <= Len(Marker) /\ t = SubSeq(Marker, 1, Len(t))

Grounded == rpc \in {"chat", "fallback", "done"} /\ context_passages # <<>>

\* C8 as stated: a passage longer than 300 characters is in the context as its
\* 300-character prefix followed by "...", and the context never contains the
\* full passage; a passage of at most 300 characters is there unchanged.
C8_TruncatedNeverFull ==
    Grounded =>
        \A i \in 1 .. Len(hits) :
            hits[i] # NoPassage =>
                LET p == hits[i]
                    k == EntryIndex(hits, i)
                IN  IF Len(p) > TruncLen
                       THEN /\ EntryIn(rag_prompt, k, SubSeq(p, 1, TruncLen) \o Marker)
                            /\ ~Contains(rag_prompt, p)
                       ELSE EntryIn(rag_prompt, k, p)

\* C8 amended: a passage longer than 300 characters is in the context as its
\* 300-character prefix followed by "..." (303 characters, whatever its
\* length), and that entry contains the full passage exactly when the
\* characters cut off are themselves the beginning of the marker (the passage
\* is its 300-character prefix followed by ".", ".." or "..."); a passage of
\* at most 300 characters is there unchanged, with no marker added.
C8_TruncatedToPrefixAndMarker ==
    Grounded =>
        \A i \in 1 .. Len(hits) :
            hits[i] # NoPassage =>
                LET p == hits[i]
                    k == EntryIndex(hits, i)
                    e == context_passages[k]
                IN  /\ EntryIn(rag_prompt, k, e)
                    /\ IF Len(p) > TruncLen
                          THEN /\ e = SubSeq(p, 1, TruncLen) \o Marker
                               /\ Len(e) = TruncLen + Len(Marker)
                               /\ Contains(e, p) <=>
                                     IsMarkerPrefix(SubSeq(p, TruncLen + 1, Len(p)))
                          ELSE e = p

C8_Witness ==
    /\ rpc = "done"
    /\ Len(hits) = 2
    /\ hits[1] = Fill("a", TruncLen + 2)
    /\ hits[2] = Fill("a", TruncLen) \o Marker
    /\ context_passages = <<Fill("a", TruncLen) \o Marker, hits[2]>>
    /\ chatReqs = <<rag_prompt>>

\* ------------------------------------------------------------------------
\* compare_answers_with_gemma
\* ------------------------------------------------------------------------
\* A reply of the judge is a string of these pieces: "INCORRECT" is the piece
\* "IN" followed at once by the piece "CORRECT"; "x" is any other text.
ReplyPieces == {"IN", "CORRECT", "in", "correct", " ", "x"}

\* replies have at most MaxReplyLen pieces
MaxReplyLen == 3

JudgeReplies == UNION {[1 .. n -> ReplyPieces] : n \in 0 .. MaxReplyLen}

\* str.upper()
UpperPiece(c) ==
    CASE c = "in" -> "IN"
      [] c = "correct" -> "CORRECT"
      [] c = "x" -> "X"
      [] OTHER -> c

Upper(str) == [i \in 1 .. Len(str) |-> UpperPiece(str[i])]

\* str.strip()
RECURSIVE LStrip(_)
LStrip(str) ==
    IF str # <<>> /\ Head(str) = " " THEN LStrip(Tail(str)) ELSE str

RECURSIVE RStrip(_)
RStrip(str) ==
    IF str # <<>> /\ str[Len(str)] = " "
       THEN RStrip(SubSeq(str, 1, Len(str) - 1))
       ELSE str

Strip(str) == RStrip(LStrip(str))

\* the verdict for the value query_gemma3_model returned (lines 54-64)
Classify(reply) ==
    IF reply = NoneSeq \/ reply = <<>> THEN "ERROR"
    ELSE LET result == Upper(Strip(reply)) IN
         IF Contains(result, <<"CORRECT">>) /\ ~Contains(result, <<"IN", "CORRECT">>)
            THEN "CORRECT"
         ELSE IF Contains(result, <<"IN", "CORRECT">>) THEN "INCORRECT"
         ELSE "ERROR"

\* comparison_result = query_gemma3_model(comparison_prompt)
JudgeQuery ==
    /\ jpc = "start"
    /\ \E outcome \in ChatOutcomesOf(JudgeReplies) :
          comparison_result' = QueryGemma3Result(outcome)
    /\ jpc' = "classify"
    /\ verdict' = verdict
    /\ UNCHANGED <<pollVars, envModelId, ragVars, setupVars, qaVars>>

\* if comparison_result: ... return "CORRECT" / "INCORRECT" / "ERROR"
JudgeClassify ==
    /\ jpc = "classify"
    /\ verdict' = Classify(comparison_result)
    /\ jpc' = "done"
    /\ comparison_result' = comparison_result
    /\ UNCHANGED <<pollVars, envModelId, ragVars, setupVars, qaVars>>

InitJudge ==
    /\ PollIdle
    /\ envModelId = NoneVal
    /\ RagIdle
    /\ SetupIdle
    /\ QaIdle
    /\ jpc = "start"
    /\ comparison_result = NoneSeq
    /\ verdict = NoneVal

NextJudge ==
    \/ JudgeQuery
    \/ JudgeClassify

SpecJudge == InitJudge /\ [][NextJudge]_vars

\* ------------------------------------------------------------------------
\* Claims about compare_answers_with_gemma (checked under SpecJudge)
\* ------------------------------------------------------------------------
\* the two tokens in a reply, letter case set aside: "CORRECT" standing on its
\* own (not the tail of "INCORRECT"), and "INCORRECT"
HasCorrectToken(reply) ==
    LET r == Upper(reply) IN
    \E i \in 1 .. Len(r) : r[i] = "CORRECT" /\ (i = 1 \/ r[i - 1] # "IN")

HasIncorrectToken(reply) ==
    LET r == Upper(reply) IN
    \E i \in 1 .. (Len(r) - 1) : r[i] = "IN" /\ r[i + 1] = "CORRECT"

\* C9: a reply with only the token CORRECT gives CORRECT, a reply with only
\* the token INCORRECT gives INCORRECT, and a reply with both tokens or with
\* neither gives the third verdict ERROR.
C9_AmbiguousIsError ==
    (jpc = "done" /\ comparison_result # NoneSeq) =>
        LET c == HasCorrectToken(comparison_result)
            n == HasIncorrectToken(comparison_result)
        IN  verdict = (IF c /\ ~n THEN "CORRECT"
                       ELSE IF n /\ ~c THEN "INCORRECT"
                       ELSE "ERROR")

\* ------------------------------------------------------------------------
\* setup_opensearch_indexes: the provisioning run
\* ------------------------------------------------------------------------
VerifyTimeout == 300
VerifyInterval == 10
BatchSize == 100

\* the dataset holds at most MaxFullBatches full batches and one document more
MaxFullBatches == 2

\* the steps of the run, in the order of the code
Order ==
    <<"settings", "register", "poll_registration", "deploy", "poll_deployment",
      "verify", "pipeline", "index", "ingest">>

\* a request whose response carries 'acknowledged'
AckOutcomes == {"acknowledged", "not acknowledged", "raise"}

\* an exception leaves setup_opensearch_indexes (except Exception: ... raise)
Propagate(kind) ==
    /\ spc' = "failed"
    /\ serr' = [kind |-> kind, value |-> NoneVal]

\* the call wait_for_task_completion(client, task_id, op, mid)
CallWait(op, mid) ==
    /\ wpc' = "start"
    /\ operation' = op
    /\ wModelArg' = mid
    /\ lastResp' = NoResponse
    /\ wres' = NoResult
    /\ fetches' = 0
    /\ sleeps' = 0
    /\ nonTerm' = 0
    /\ allRunning' = TRUE
    /\ UNCHANGED <<now, start_time, lastCheck>>

\* wait_for_task_completion has returned or raised: its frame is gone
ReleaseWait ==
    /\ wpc' = "idle"
    /\ operation' = NoneVal
    /\ wModelArg' = NoneVal
    /\ start_time' = 0
    /\ lastResp' = NoResponse
    /\ wres' = NoResult
    /\ fetches' = 0
    /\ sleeps' = 0
    /\ nonTerm' = 0
    /\ allRunning' = TRUE
    /\ lastCheck' = 0
    /\ now' = now

\* if not client.ping(): raise ConnectionError(...)
SetupPing ==
    /\ spc = "start"
    /\ \E up \in BOOLEAN :
          IF up THEN spc' = "info" /\ serr' = serr
                ELSE Propagate("ConnectionError")
    /\ UNCHANGED <<model_id, steps, okSteps, regRequests, deployRequests, deployModelId,
                   pipelineModelId, vpc, vstart, vLast, vfetches, vsleeps,
                   numDocs, batchStart, total_ingested, bulkLog>>
    /\ UNCHANGED <<pollVars, envModelId, ragVars, judgeVars, qaVars>>

\* cluster_info = client.info()
SetupInfo ==
    /\ spc = "info"
    /\ \E ok \in BOOLEAN :
          IF ok THEN spc' = "settings" /\ serr' = serr
                ELSE Propagate("TransportError")
    /\ UNCHANGED <<model_id, steps, okSteps, regRequests, deployRequests, deployModelId,
                   pipelineModelId, vpc, vstart, vLast, vfetches, vsleeps,
                   numDocs, batchStart, total_ingested, bulkLog>>
    /\ UNCHANGED <<pollVars, envModelId, ragVars, judgeVars, qaVars>>

\* setup_ml_cluster_settings(client)
SetupSettings ==
    /\ spc = "settings"
    /\ steps' = Append(steps, "settings")
    /\ \E out \in AckOutcomes :
          IF out = "raise"
             THEN Propagate("TransportError") /\ okSteps' = okSteps
             ELSE /\ spc' = "register"
                  /\ serr' = serr
                  /\ okSteps' = (IF out = "acknowledged"
                                    THEN okSteps \cup {"settings"} ELSE okSteps)
    /\ UNCHANGED <<model_id, regRequests, deployRequests, deployModelId,
                   pipelineModelId, vpc, vstart, vLast, vfetches, vsleeps,
                   numDocs, batchStart, total_ingested, bulkLog>>
    /\ UNCHANGED <<pollVars, envModelId, ragVars, judgeVars, qaVars>>

\* register_model: POST /_plugins/_ml/models/_register, then the poll begins
RegisterRequest ==
    /\ spc = "register"
    /\ regRequests' = regRequests + 1
    /\ \E ok \in BOOLEAN :
          IF ok
             THEN /\ steps' = steps \o <<"register", "poll_registration">>
                  /\ okSteps' = okSteps \cup {"register"}
                  /\ spc' = "wait_registration"
                  /\ serr' = serr
                  /\ CallWait("registration", NoneVal)
             ELSE /\ steps' = Append(steps, "register")
                  /\ okSteps' = okSteps
                  /\ Propagate("TransportError")
                  /\ UNCHANGED pollVars
    /\ UNCHANGED <<model_id, deployRequests, deployModelId,
                   pipelineModelId, vpc, vstart, vLast, vfetches, vsleeps,
                   numDocs, batchStart, total_ingested, bulkLog>>
    /\ UNCHANGED <<envModelId, ragVars, judgeVars, qaVars>>

\* a registration whose poll failed is submitted again
RegisterReturnRetries ==
    /\ spc = "wait_registration"
    /\ wpc = "done"
    /\ ReleaseWait
    /\ IF wres.kind = "return"
          THEN /\ model_id' = wres.value
               /\ okSteps' = okSteps \cup {"poll_registration"}
               /\ spc' = "deploy"
          ELSE /\ spc' = "register"
               /\ UNCHANGED <<model_id, okSteps>>
    /\ UNCHANGED <<serr, steps, regRequests, deployRequests, deployModelId,
                   pipelineModelId, vpc, vstart, vLast, vfetches, vsleeps,
                   numDocs, batchStart, total_ingested, bulkLog>>
    /\ UNCHANGED <<envModelId, ragVars, judgeVars, qaVars>>

\* the environment variable written as soon as registration has returned
RegisterReturnStoresEnv ==
    /\ spc = "wait_registration"
    /\ wpc = "done"
    /\ ReleaseWait
    /\ IF wres.kind = "return"
          THEN /\ model_id' = wres.value
               /\ envModelId' = wres.value
               /\ okSteps' = okSteps \cup {"poll_registration"}
               /\ spc' = "deploy"
               /\ serr' = serr
          ELSE /\ spc' = "failed"
               /\ serr' = wres
               /\ UNCHANGED <<model_id, okSteps, envModelId>>
    /\ UNCHANGED <<steps, regRequests, deployRequests, deployModelId,
                   pipelineModelId, vpc, vstart, vLast, vfetches, vsleeps,
                   numDocs, batchStart, total_ingested, bulkLog>>
    /\ UNCHANGED <<ragVars, judgeVars, qaVars>>

\* model_id = wait_for_task_completion(client, task_id, "registration")
RegisterReturn ==
    /\ spc = "wait_registration"
    /\ wpc = "done"
    /\ ReleaseWait
    /\ IF wres.kind = "return"
          THEN /\ model_id' = wres.value
               /\ okSteps' = okSteps \cup {"poll_registration"}
               /\ spc' = "deploy"
               /\ serr' = serr
          ELSE /\ spc' = "failed"
               /\ serr' = wres
               /\ UNCHANGED <<model_id, okSteps>>
    /\ UNCHANGED <<steps, regRequests, deployRequests, deployModelId,
                   pipelineModelId, vpc, vstart, vLast, vfetches, vsleeps,
                   numDocs, batchStart, total_ingested, bulkLog>>
    /\ UNCHANGED <<envModelId, ragVars, judgeVars, qaVars>>

\* deploy_model: POST /_plugins/_ml/models/{model_id}/_deploy, then the poll begins
DeployRequest ==
    /\ spc = "deploy"
    /\ deployRequests' = deployRequests + 1
    /\ deployModelId' = model_id
    /\ \E ok \in BOOLEAN :
          IF ok
             THEN /\ steps' = steps \o <<"deploy", "poll_deployment">>
                  /\ okSteps' = okSteps \cup {"deploy"}
                  /\ spc' = "wait_deployment"
                  /\ serr' = serr
                  /\ CallWait("deployment", model_id)
             ELSE /\ steps' = Append(steps, "deploy")
                  /\ okSteps' = okSteps
                  /\ Propagate("TransportError")
                  /\ UNCHANGED pollVars
    /\ UNCHANGED <<model_id, regRequests,
                   pipelineModelId, vpc, vstart, vLast, vfetches, vsleeps,
                   numDocs, batchStart, total_ingested, bulkLog>>
    /\ UNCHANGED <<envModelId, ragVars, judgeVars, qaVars>>

\* wait_for_task_completion(client, task_id, "deployment", model_id) returns;
\* verify_model_ready(client, model_id) is called
DeployReturn ==
    /\ spc = "wait_deployment"
    /\ wpc = "done"
    /\ ReleaseWait
    /\ IF wres.kind = "return"
          THEN /\ okSteps' = okSteps \cup {"poll_deployment"}
               /\ steps' = Append(steps, "verify")
               /\ spc' = "verify"
               /\ vpc' = "start"
               /\ serr' = serr
          ELSE /\ spc' = "failed"
               /\ serr' = wres
               /\ UNCHANGED <<okSteps, steps, vpc>>
    /\ UNCHANGED <<model_id, regRequests, deployRequests, deployModelId,
                   pipelineModelId, vstart, vLast, vfetches, vsleeps,
                   numDocs, batchStart, total_ingested, bulkLog>>
    /\ UNCHANGED <<envModelId, ragVars, judgeVars, qaVars>>

\* ------------------------------------------------------------------------
\* verify_model_ready
\* ------------------------------------------------------------------------
ModelStates == {"DEPLOYED", "DEPLOYING", "PARTIALLY_DEPLOYED", "DEPLOY_FAILED", Absent}

\* start_time = time.time()
VerifyStart ==
    /\ spc = "verify"
    /\ vpc = "start"
    /\ vstart' = now
    /\ vpc' = "check"
    /\ UNCHANGED <<spc, model_id, serr, steps, okSteps, regRequests, deployRequests,
                   deployModelId, pipelineModelId, vLast, vfetches, vsleeps,
                   numDocs, batchStart, total_ingested, bulkLog>>
    /\ UNCHANGED <<pollVars, envModelId, ragVars, judgeVars, qaVars>>

\* the loop head measuring from the start of the run, not of this poll
VerifyCheckFromRunStart ==
    /\ spc = "verify"
    /\ vpc = "check"
    /\ IF now < VerifyTimeout
          THEN /\ vpc' = "fetch"
               /\ UNCHANGED <<spc, serr>>
          ELSE /\ vpc' = "done"
               /\ Propagate("TimeoutError")
    /\ UNCHANGED <<model_id, steps, okSteps, regRequests, deployRequests,
                   deployModelId, pipelineModelId, vstart, vLast, vfetches, vsleeps,
                   numDocs, batchStart, total_ingested, bulkLog>>
    /\ UNCHANGED <<pollVars, envModelId, ragVars, judgeVars, qaVars>>

\* while time.time() - start_time < timeout; the TimeoutError after the loop
VerifyCheck ==
    /\ spc = "verify"
    /\ vpc = "check"
    /\ IF now - vstart < VerifyTimeout
          THEN /\ vpc' = "fetch"
               /\ UNCHANGED <<spc, serr>>
          ELSE /\ vpc' = "done"
               /\ Propagate("TimeoutError")
    /\ UNCHANGED <<model_id, steps, okSteps, regRequests, deployRequests,
                   deployModelId, pipelineModelId, vstart, vLast, vfetches, vsleeps,
                   numDocs, batchStart, total_ingested, bulkLog>>
    /\ UNCHANGED <<pollVars, envModelId, ragVars, judgeVars, qaVars>>

\* GET /_plugins/_ml/models/{model_id} and the branch on model_state; on
\* DEPLOYED verify_model_ready and register_and_deploy_model_separately return
\* and os.environ['OPENSEARCH_MODEL_ID'] = model_id is executed
VerifyFetch ==
    /\ spc = "verify"
    /\ vpc = "fetch"
    /\ \E response \in ModelStates \cup {"<raise>"} :
          /\ vLast' = response
          /\ IF response = "DEPLOYED"
                THEN /\ vpc' = "done"
                     /\ vfetches' = vfetches + 1
                     /\ UNCHANGED <<vstart, vsleeps>>
                     /\ okSteps' = okSteps \cup {"verify"}
                     /\ IF model_id = NoneVal
                           THEN \* os.environ refuses a value that is not a str
                                /\ Propagate("TypeError")
                                /\ envModelId' = envModelId
                           ELSE /\ envModelId' = model_id
                                /\ spc' = "pipeline"
                                /\ serr' = serr
                ELSE /\ vpc' = "sleep"
                     /\ vfetches' = vfetches + 1
                     /\ UNCHANGED <<okSteps, envModelId, spc, serr, vstart, vsleeps>>
    /\ UNCHANGED <<model_id, steps, regRequests, deployRequests,
                   deployModelId, pipelineModelId,
                   numDocs, batchStart, total_ingested, bulkLog>>
    /\ UNCHANGED <<pollVars, ragVars, judgeVars, qaVars>>

\* time.sleep(10), after a state that is not DEPLOYED and after an exception
VerifySleep ==
    /\ spc = "verify"
    /\ vpc = "sleep"
    /\ now' = now + VerifyInterval
    /\ vsleeps' = vsleeps + 1
    /\ vpc' = "check"
    /\ UNCHANGED <<spc, model_id, serr, steps, okSteps, regRequests, deployRequests,
                   deployModelId, pipelineModelId, vstart, vLast, vfetches,
                   numDocs, batchStart, total_ingested, bulkLog>>
    /\ UNCHANGED <<wpc, operation, wModelArg, start_time, lastResp, wres,
                   fetches, sleeps, nonTerm, allRunning, lastCheck>>
    /\ UNCHANGED <<envModelId, ragVars, judgeVars, qaVars>>

\* ------------------------------------------------------------------------
\* create_ingest_pipeline, create_nlp_index, ingest_wikipedia_dataset
\* ------------------------------------------------------------------------
\* verify_model_ready has returned: its frame is gone
ReleaseVerify ==
    /\ vstart' = 0
    /\ vfetches' = 0
    /\ vsleeps' = 0
    /\ UNCHANGED <<vpc, vLast>>

\* client.ingest.put_pipeline(id='nlp-ingest-pipeline', body=pipeline_config)
CreatePipeline ==
    /\ spc = "pipeline"
    /\ ReleaseVerify
    /\ steps' = Append(steps, "pipeline")
    /\ pipelineModelId' = model_id
    /\ \E out \in AckOutcomes :
          IF out = "raise"
             THEN Propagate("TransportError") /\ okSteps' = okSteps
             ELSE /\ spc' = "index"
                  /\ serr' = serr
                  /\ okSteps' = (IF out = "acknowledged"
                                    THEN okSteps \cup {"pipeline"} ELSE okSteps)
    /\ UNCHANGED <<model_id, regRequests, deployRequests, deployModelId,
                   numDocs, batchStart, total_ingested, bulkLog>>
    /\ UNCHANGED <<pollVars, envModelId, ragVars, judgeVars, qaVars>>

\* if client.indices.exists(index=index_name)
IndexExists ==
    /\ spc = "index"
    /\ steps' = Append(steps, "index")
    /\ \E out \in {"exists", "missing", "raise"} :
          IF out = "raise"
             THEN Propagate("TransportError")
             ELSE /\ spc' = (IF out = "exists" THEN "index_delete" ELSE "index_create")
                  /\ serr' = serr
    /\ UNCHANGED <<model_id, okSteps, regRequests, deployRequests, deployModelId,
                   pipelineModelId, vpc, vstart, vLast, vfetches, vsleeps,
                   numDocs, batchStart, total_ingested, bulkLog>>
    /\ UNCHANGED <<pollVars, envModelId, ragVars, judgeVars, qaVars>>

\* client.indices.delete(index=index_name)
IndexDelete ==
    /\ spc = "index_delete"
    /\ \E ok \in BOOLEAN :
          IF ok THEN spc' = "index_create" /\ serr' = serr
                ELSE Propagate("TransportError")
    /\ UNCHANGED <<model_id, steps, okSteps, regRequests, deployRequests, deployModelId,
                   pipelineModelId, vpc, vstart, vLast, vfetches, vsleeps,
                   numDocs, batchStart, total_ingested, bulkLog>>
    /\ UNCHANGED <<pollVars, envModelId, ragVars, judgeVars, qaVars>>

\* client.indices.create(index=index_name, body=index_config)
IndexCreate ==
    /\ spc = "index_create"
    /\ \E out \in AckOutcomes :
          IF out = "raise"
             THEN Propagate("TransportError") /\ okSteps' = okSteps
             ELSE /\ spc' = "ingest"
                  /\ serr' = serr
                  /\ okSteps' = (IF out = "acknowledged"
                                    THEN okSteps \cup {"index"} ELSE okSteps)
    /\ UNCHANGED <<model_id, steps, regRequests, deployRequests, deployModelId,
                   pipelineModelId, vpc, vstart, vLast, vfetches, vsleeps,
                   numDocs, batchStart, total_ingested, bulkLog>>
    /\ UNCHANGED <<pollVars, envModelId, ragVars, judgeVars, qaVars>>

DocCounts == {b * BatchSize + r : b \in 0 .. MaxFullBatches, r \in {0, 1}}

\* dataset = load_dataset(...); train_data = dataset["passages"]
IngestLoad ==
    /\ spc = "ingest"
    /\ steps' = Append(steps, "ingest")
    /\ \/ /\ Propagate("DatasetError")
          /\ UNCHANGED <<numDocs, batchStart, total_ingested>>
       \/ /\ numDocs' \in DocCounts
          /\ batchStart' = 0
          /\ total_ingested' = 0
          /\ spc' = "ingest_loop"
          /\ serr' = serr
    /\ UNCHANGED <<model_id, okSteps, regRequests, deployRequests, deployModelId,
                   pipelineModelId, vpc, vstart, vLast, vfetches, vsleeps, bulkLog>>
    /\ UNCHANGED <<pollVars, envModelId, ragVars, judgeVars, qaVars>>

\* the loop counting the documents of every batch whose request returned
IngestBatchCountsAll ==
    /\ spc = "ingest_loop"
    /\ batchStart < numDocs
    /\ LET size == Min(BatchSize, numDocs - batchStart) IN
       \E out \in {"ok", "errors", "raise"} :
          /\ bulkLog' = Append(bulkLog, [start |-> batchStart, size |-> size, outcome |-> out])
          /\ IF out = "raise"
                THEN /\ Propagate("TransportError")
                     /\ UNCHANGED <<batchStart, total_ingested>>
                ELSE /\ total_ingested' = total_ingested + size
                     /\ batchStart' = batchStart + BatchSize
                     /\ UNCHANGED <<spc, serr>>
    /\ UNCHANGED <<model_id, steps, okSteps, regRequests, deployRequests, deployModelId,
                   pipelineModelId, vpc, vstart, vLast, vfetches, vsleeps, numDocs>>
    /\ UNCHANGED <<pollVars, envModelId, ragVars, judgeVars, qaVars>>

\* one iteration of for i in range(0, len(train_data), batch_size)
IngestBatch ==
    /\ spc = "ingest_loop"
    /\ batchStart < numDocs
    /\ LET size == Min(BatchSize, numDocs - batchStart) IN
       \E out \in {"ok", "errors", "raise"} :
          /\ bulkLog' = Append(bulkLog, [start |-> batchStart, size |-> size, outcome |-> out])
          /\ IF out = "raise"
                THEN /\ Propagate("TransportError")
                     /\ UNCHANGED <<batchStart, total_ingested>>
                ELSE /\ total_ingested' = (IF out = "ok" THEN total_ingested + size
                                                        ELSE total_ingested)
                     /\ batchStart' = batchStart + BatchSize
                     /\ UNCHANGED <<spc, serr>>
    /\ UNCHANGED <<model_id, steps, okSteps, regRequests, deployRequests, deployModelId,
                   pipelineModelId, vpc, vstart, vLast, vfetches, vsleeps, numDocs>>
    /\ UNCHANGED <<pollVars, envModelId, ragVars, judgeVars, qaVars>>

\* the loop is over: the summary is printed and setup_opensearch_indexes returns
IngestFinish ==
    /\ spc = "ingest_loop"
    /\ batchStart >= numDocs
    /\ okSteps' = okSteps \cup {"ingest"}
    /\ spc' = "done"
    /\ UNCHANGED <<model_id, serr, steps, regRequests, deployRequests, deployModelId,
                   pipelineModelId, vpc, vstart, vLast, vfetches, vsleeps,
                   numDocs, batchStart, total_ingested, bulkLog>>
    /\ UNCHANGED <<pollVars, envModelId, ragVars, judgeVars, qaVars>>

\* ------------------------------------------------------------------------
\* One provisioning run
\* ------------------------------------------------------------------------
\* in the run a status fetch takes no time and a pending task reports RUNNING
SetupTaskResponses ==
    {r \in TaskResponses : r.state \in {"RUNNING", "COMPLETED", "FAILED"}}
    \cup {TransportErr}

SetupFetch == WaitFetch({0}, SetupTaskResponses)

InitSetup ==
    /\ PollIdle
    /\ envModelId \in {NoneVal, "m0"}
    /\ RagIdle
    /\ JudgeIdle
    /\ QaIdle
    /\ spc = "start"
    /\ model_id = NoneVal
    /\ serr = NoError
    /\ steps = <<>>
    /\ okSteps = {}
    /\ regRequests = 0
    /\ deployRequests = 0
    /\ deployModelId = NoneVal
    /\ pipelineModelId = NoneVal
    /\ vpc = "idle"
    /\ vstart = 0
    /\ vLast = NoneVal
    /\ vfetches = 0
    /\ vsleeps = 0
    /\ numDocs = 0
    /\ batchStart = 0
    /\ total_ingested = 0
    /\ bulkLog = <<>>

NextSetup ==
    \/ SetupPing
    \/ SetupInfo
    \/ SetupSettings
    \/ RegisterRequest
    \/ WaitStart
    \/ WaitCheck
    \/ SetupFetch
    \/ WaitSleep
    \/ RegisterReturn
    \/ DeployRequest
    \/ DeployReturn
    \/ VerifyStart
    \/ VerifyCheck
    \/ VerifyFetch
    \/ VerifySleep
    \/ CreatePipeline
    \/ IndexExists
    \/ IndexDelete
    \/ IndexCreate
    \/ IngestLoad
    \/ IngestBatch
    \/ IngestFinish

Spec == InitSetup /\ [][NextSetup]_vars

\* ------------------------------------------------------------------------
\* Claims about setup_opensearch_indexes (checked under Spec)
\* ------------------------------------------------------------------------
\* the steps begun so far are the first steps of Order, in that order
StepsFollowOrder == steps = SubSeq(Order, 1, Len(steps))

\* C10: the steps run in the order settings, register, poll registration,
\* deploy, poll deployment, verify, pipeline, index, ingest, and a step begins
\* only after the step before it has finished successfully.
C10_StepsInOrderAfterSuccess ==
    /\ Len(steps) <= Len(Order)
    /\ StepsFollowOrder
    /\ \A k \in 2 .. Len(steps) : Order[k - 1] \in okSteps

\* a step that was begun is not begun again
NoStepRepeated ==
    \A j, k \in 1 .. Len(steps) : j # k => steps[j] # steps[k]

\* an exception that left the run is the one the caller sees
FailureReachesCaller == spc = "failed" => serr # NoError

\* C11: provisioning errors are fatal.  A step that did not succeed is the last
\* step of the run: no later step is begun after it and the run does not
\* complete; no step is begun twice; the failure is raised to the caller.
C11_ProvisioningErrorsFatal ==
    /\ \A k \in 1 .. Len(steps) :
          steps[k] \notin okSteps => (k = Len(steps) /\ spc # "done")
    /\ NoStepRepeated
    /\ FailureReachesCaller

\* ------------------------------------------------------------------------
\* Claims about verify_model_ready (checked under Spec)
\* ------------------------------------------------------------------------
VerifyLooping == vpc \in {"check", "fetch", "sleep"}

VerifyTimedOut == vpc = "done" /\ serr.kind = "TimeoutError"

\* C12: verify_model_ready returns only after a status fetch observed DEPLOYED.
\* Every other observation (DEPLOYING, PARTIALLY_DEPLOYED, another state, no
\* state, an exception of the fetch) is followed by one sleep of the fixed
\* interval and another turn of the loop, and the call fails only with the
\* TimeoutError, raised when its own timeout has elapsed since its own start.
C12_ReadyOnlyWhenDeployed ==
    /\ "verify" \in okSteps => (vpc = "done" /\ vLast = "DEPLOYED")
    /\ (vpc = "done" /\ ~VerifyTimedOut) => (vLast = "DEPLOYED" /\ "verify" \in okSteps)
    /\ VerifyTimedOut =>
          /\ vLast # "DEPLOYED"
          /\ now - vstart >= VerifyTimeout
          /\ vfetches = vsleeps
          /\ spc = "failed"
    /\ VerifyLooping =>
          /\ spc = "verify"
          /\ now = vstart + vsleeps * VerifyInterval
          /\ now - vstart < VerifyTimeout + VerifyInterval
    /\ vpc \in {"check", "fetch"} => vfetches = vsleeps
    /\ vpc = "sleep" => (vLast # "DEPLOYED" /\ vfetches = vsleeps + 1)
    /\ (vpc = "done" /\ vLast = "DEPLOYED" /\ vfetches > 0) => vfetches = vsleeps + 1

C12_Witness ==
    /\ vpc = "done"
    /\ vLast = "DEPLOYED"
    /\ spc = "pipeline"
    /\ vstart > 0
    /\ vsleeps >= 2
    /\ vfetches = vsleeps + 1

\* ------------------------------------------------------------------------
\* Claims about ingest_wikipedia_dataset (checked under Spec)
\* ------------------------------------------------------------------------
\* the number of batches of the loaded dataset
NumBatches == (numDocs + BatchSize - 1) \div BatchSize

\* the bulk requests sent are the first batches of the dataset, one after another
BatchesInDatasetOrder ==
    \A k \in 1 .. Len(bulkLog) :
        /\ bulkLog[k].start = (k - 1) * BatchSize
        /\ bulkLog[k].size = Min(BatchSize, numDocs - bulkLog[k].start)
        /\ k <= NumBatches

\* a bulk response that reports errors is followed by the next batch
ReportedErrorsDoNotHalt ==
    (spc \in {"done", "failed"} /\ bulkLog # <<>>
        /\ bulkLog[Len(bulkLog)].outcome # "raise") => Len(bulkLog) = NumBatches

\* C13: the batches are submitted one after another in dataset order, and the
\* failure of a bulk request does not stop the loop: when ingestion has ended,
\* every batch of the dataset has been submitted.
C13_EveryBatchSubmitted ==
    /\ BatchesInDatasetOrder
    /\ (spc \in {"done", "failed"} /\ bulkLog # <<>>) => Len(bulkLog) = NumBatches

\* ------------------------------------------------------------------------
\* Claims about search_wikipedia_articles (checked under SpecRag)
\* ------------------------------------------------------------------------
\* os.environ.get('OPENSEARCH_MODEL_ID') is None or the empty string
ModelIdUnset == envModelId \in {NoneVal, ""}

\* search_wikipedia_articles has been called
SearchCalled ==
    /\ rpc \in {"chat", "fallback", "done"}
    /\ failure \notin {"client", "ping false", "ping raise"}

\* C14: with OPENSEARCH_MODEL_ID absent or empty the search fails with the
\* ValueError and no search request has been sent; with the variable set, the
\* one request sent carries the variable's value as model_id (and the question
\* as query_text).
C14_ModelIdPrecondition ==
    /\ ModelIdUnset => searchReqs = <<>>
    /\ (SearchCalled /\ ModelIdUnset) => failure = "no model id"
    /\ failure = "no model id" => ModelIdUnset
    /\ (SearchCalled /\ ~ModelIdUnset) =>
          /\ Len(searchReqs) = 1
          /\ searchReqs[1].model_id = envModelId
          /\ searchReqs[1].query_text = question

C14_Witness ==
    /\ rpc = "done"
    /\ envModelId = ""
    /\ failure = "no model id"
    /\ searchReqs = <<>>
    /\ chatReqs = <<question>>

\* ------------------------------------------------------------------------
\* Claims about the value query_gemma3_model_with_rag returns (under SpecRag)
\* ------------------------------------------------------------------------
\* a call of the generation backend that ended in an exception
Unreached(kind) == kind \in {"raise", "client raise"}

\* C15 amended: the function returns the generated text or None,
\* and None exactly when the last call of the generation backend gave no
\* well-formed response: the grounded call answered in an unexpected shape
\* (no fallback query is made then), or the fallback query raised or answered
\* in an unexpected shape.
C15_NoneIffNoContent ==
    rpc = "done" =>
        /\ chatLog # <<>>
        /\ Len(chatLog) <= 2
        /\ rresult \in Contents \cup {NoneSeq}
        /\ (rresult = NoneSeq) <=> (chatLog[Len(chatLog)] # "ok")
        /\ (rresult = NoneSeq /\ fbResult = NoFallback) => chatLog = <<"malformed">>
        /\ fbResult # NoFallback => rresult = fbResult

C15_Witness ==
    /\ rpc = "done"
    /\ context_passages # <<>>
    /\ chatReqs = <<rag_prompt>>
    /\ chatLog = <<"malformed">>
    /\ fbResult = NoFallback
    /\ rresult = NoneSeq

\* C15 as stated: the function returns the generated text or None, and None
\* only when the generation backend could not be reached at all, the fallback
\* query included: the fallback was made and every call of the backend ended
\* in an exception.
C15_NoneOnlyWhenUnreachable ==
    rpc = "done" =>
        /\ rresult \in Contents \cup {NoneSeq}
        /\ rresult = NoneSeq =>
              /\ fbResult # NoFallback
              /\ \A k \in 1 .. Len(chatLog) : Unreached(chatLog[k])

\* ------------------------------------------------------------------------
\* Claims about the requests of one provisioning run (checked under Spec)
\* ------------------------------------------------------------------------
\* wait_for_task_completion is at one of its own steps
PollerAtWork == wpc \in {"start", "check", "fetch", "sleep"}

\* the registration and the deployment request are each sent at most once,
\* and while a poll runs the request it waits for is the last one sent
RequestsAtMostOnce ==
    /\ regRequests <= 1
    /\ deployRequests <= 1
    /\ deployRequests = 1 => regRequests = 1
    /\ (wpc # "idle" /\ operation = "registration") =>
          (regRequests = 1 /\ deployRequests = 0)
    /\ (wpc # "idle" /\ operation = "deployment") =>
          (regRequests = 1 /\ deployRequests = 1)

\* C16: the poller changes nothing but its own locals and the clock (it only
\* fetches the task status and sleeps), and in one provisioning run the
\* registration request and the deployment request are each submitted at most
\* once, however many turns the polls take and however they end.
C16_NoRetriedMutation ==
    /\ []RequestsAtMostOnce
    /\ [][PollerAtWork => UNCHANGED <<envModelId, setupVars>>]_vars

C16_Witness ==
    /\ spc = "failed"
    /\ serr.kind = "TimeoutError"
    /\ steps = <<"settings", "register", "poll_registration", "deploy", "poll_deployment">>
    /\ now >= DefaultTimeout
    /\ regRequests = 1
    /\ deployRequests = 1

\* ------------------------------------------------------------------------
\* Claims about OPENSEARCH_MODEL_ID in the provisioning run (checked under Spec)
\* ------------------------------------------------------------------------
\* os.environ['OPENSEARCH_MODEL_ID'] has been assigned in this run
EnvStored == "verify" \in okSteps /\ model_id # NoneVal

\* a step that changes the variable is the one that observed DEPLOYED, after
\* both polls returned, and it stores the model id of the run
EnvWriteIsAfterReadiness ==
    envModelId' # envModelId =>
        /\ {"poll_registration", "poll_deployment"} \subseteq okSteps
        /\ "verify" \notin okSteps
        /\ "verify" \in okSteps'
        /\ vLast' = "DEPLOYED"
        /\ envModelId' = model_id
        /\ model_id = deployModelId

\* the model id of the run is the value the registration poll returned
ModelIdIsFromRegistration ==
    model_id' # model_id =>
        /\ spc = "wait_registration"
        /\ wres.kind = "return"
        /\ lastResp.state = "COMPLETED"
        /\ model_id' = wres.value

\* C17: OPENSEARCH_MODEL_ID is written only after the registration poll and the
\* deployment poll returned on COMPLETED and verify_model_ready observed
\* DEPLOYED; the value written is the model id registration returned, the one
\* the deploy request and the ingest pipeline are given; a failure before
\* that point leaves the variable as it was and a failure of a later step
\* (pipeline, index, ingestion) leaves it set.
C17_EnvWrittenAfterReadiness ==
    /\ [][EnvWriteIsAfterReadiness]_vars
    /\ [][ModelIdIsFromRegistration]_vars
    /\ [](EnvStored => (envModelId = model_id /\ deployModelId = model_id))
    /\ [](pipelineModelId # NoneVal => (EnvStored /\ pipelineModelId = envModelId))

C17_Witness ==
    /\ spc = "failed"
    /\ steps = SubSeq(Order, 1, 8)
    /\ model_id = "m1"
    /\ deployModelId = "m1"
    /\ pipelineModelId = "m1"
    /\ envModelId = "m1"

\* ------------------------------------------------------------------------
\* Claims about the requests of one query (checked under SpecRag)
\* ------------------------------------------------------------------------
\* the request holds neither the CONTEXT section nor the instruction sentences
QuestionAlone(req) ==
    /\ req = question
    /\ \A k \in 1 .. Len(req) :
          req[k] \notin {"CONTEXT:", "QUESTION:", AnswerInstruction, GroundingInstruction}

\* C18: one call sends at most one search request and at most two requests to
\* the generation backend.  There is a second one only after the grounded
\* request ended in an exception, and that second request, like the only
\* request of a call whose ping failed, is the original question alone.
C18_RequestBudget ==
    /\ Len(searchReqs) <= 1
    /\ Len(chatReqs) <= 2
    /\ Len(chatLog) <= 2
    /\ Len(chatReqs) = 2 =>
          /\ failure = "chat"
          /\ chatLog[1] = "raise"
          /\ chatReqs[1] = rag_prompt
          /\ QuestionAlone(chatReqs[2])
    /\ Len(chatLog) = 2 => (failure = "chat" /\ Unreached(chatLog[1]))
    /\ (failure \in {"ping false", "ping raise"} /\ chatReqs # <<>>) =>
          (Len(chatReqs) = 1 /\ QuestionAlone(chatReqs[1]))
    /\ (rpc = "done" /\ fbResult # NoFallback) => QuestionAlone(fbPrompt)

C18_Witness ==
    /\ rpc = "done"
    /\ Len(searchReqs) = 1
    /\ Len(context_passages) = MaxHits
    /\ chatLog = <<"raise", "malformed">>
    /\ chatReqs = <<rag_prompt, question>>

\* ------------------------------------------------------------------------
\* run_qa_test: the two evaluations, calculate_accuracy, the comparison
\* ------------------------------------------------------------------------
\* test_data holds at most MaxSamples question-answer pairs
MaxSamples == 2

NoResponseText == "[NO RESPONSE]"

\* what query_gemma3_model / query_gemma3_model_with_rag give for a question
Answers == {NoneVal, "", "Paris", "Rome"}

\* test_data is not empty when the evaluations begin (lines 152-154)
SampleLists ==
    {[k \in 1 .. n |-> [question |-> <<"Q", ToString(k)>>, answer |-> <<"A", ToString(k)>>]] :
        n \in 1 .. MaxSamples}

\* if not ollama_response: ollama_response = "[NO RESPONSE]"
GemmaAnswer(ollama_response) ==
    IF ollama_response \in {NoneVal, ""} THEN NoResponseText ELSE ollama_response

\* the dictionary evaluate_with_ollama returns (lines 83-85 and 113)
EvaluationResults(samples, pairs) ==
    IF samples = <<>>
       THEN EmptyResults
       ELSE [answer_pairs |-> pairs, total_questions |-> Len(samples),
             correct_count |-> 0, percentage |-> 0]

\* (correct_count / total_questions) * 100 if total_questions > 0 else 0
Percentage(correct, total) ==
    IF total > 0 THEN [num |-> correct * 100, den |-> total] ELSE ZeroPercent

\* a > b for two percentages
Greater(a, b) == a.num * b.den > b.num * a.den

\* what calculate_accuracy returns for the pairs and the count of its loop
AccuracyOf(pairs, correct) ==
    IF pairs = <<>>
       THEN NoAccuracy
       ELSE [total |-> Len(pairs), correct |-> correct,
             percentage |-> Percentage(correct, Len(pairs))]

\* the replies the judge gives in the evaluation
AccReplies == {r \in JudgeReplies : Len(r) <= 2}

\* one turn of the loop of evaluate_with_ollama (lines 89-111)
EvalStep ==
    /\ qpc \in {"eval_regular", "eval_rag"}
    /\ Len(answer_pairs) < Len(qa_samples)
    /\ LET qa == qa_samples[Len(answer_pairs) + 1] IN
       \E ollama_response \in Answers :
          answer_pairs' = Append(answer_pairs,
              [question |-> qa.question,
               gemma_answer |-> GemmaAnswer(ollama_response),
               correct_answer |-> qa.answer])
    /\ UNCHANGED <<qpc, qa_samples, regular_results, rag_results, acc_i, correct_count,
                   judged, regular_acc, rag_acc, relDivisor, qerr>>
    /\ UNCHANGED <<pollVars, envModelId, ragVars, judgeVars, setupVars>>

\* evaluate_with_ollama returns (line 113): lines 163 and 167 of run_qa_test
EvalReturn ==
    /\ qpc \in {"eval_regular", "eval_rag"}
    /\ Len(answer_pairs) = Len(qa_samples)
    /\ IF qpc = "eval_regular"
          THEN /\ regular_results' = EvaluationResults(qa_samples, answer_pairs)
               /\ qpc' = "eval_rag"
               /\ UNCHANGED <<rag_results, acc_i>>
          ELSE /\ rag_results' = EvaluationResults(qa_samples, answer_pairs)
               /\ qpc' = "acc_regular"
               /\ acc_i' = 1
               /\ UNCHANGED regular_results
    /\ answer_pairs' = <<>>
    /\ UNCHANGED <<qa_samples, correct_count, judged, regular_acc, rag_acc,
                   relDivisor, qerr>>
    /\ UNCHANGED <<pollVars, envModelId, ragVars, judgeVars, setupVars>>

\* every verdict but ERROR counted
CountsUnlessError(v) == v # "ERROR"

\* if comparison_result == "CORRECT": correct_count += 1
Counts(v) == v = "CORRECT"

\* the evaluation calculate_accuracy is working on
CurrentResults == IF qpc = "acc_regular" THEN regular_results ELSE rag_results

\* one turn of the loop of calculate_accuracy (lines 181-192)
AccStep ==
    /\ qpc \in {"acc_regular", "acc_rag"}
    /\ acc_i <= Len(CurrentResults.answer_pairs)
    /\ LET pair == CurrentResults.answer_pairs[acc_i] IN
       IF pair.gemma_answer = NoResponseText
          THEN UNCHANGED <<judged, correct_count>>
          ELSE \E outcome \in ChatOutcomesOf(AccReplies) :
                  LET v == Classify(QueryGemma3Result(outcome)) IN
                  /\ judged' = Append(judged,
                        [mode |-> qpc, i |-> acc_i,
                         gemma_answer |-> pair.gemma_answer, verdict |-> v])
                  /\ correct_count' = (IF Counts(v) THEN correct_count + 1
                                                    ELSE correct_count)
    /\ acc_i' = acc_i + 1
    /\ UNCHANGED <<qpc, qa_samples, answer_pairs, regular_results, rag_results,
                   regular_acc, rag_acc, relDivisor, qerr>>
    /\ UNCHANGED <<pollVars, envModelId, ragVars, judgeVars, setupVars>>

\* calculate_accuracy returns (lines 195-196): lines 199 and 200 of run_qa_test
AccReturn ==
    /\ qpc \in {"acc_regular", "acc_rag"}
    /\ acc_i > Len(CurrentResults.answer_pairs)
    /\ IF qpc = "acc_regular"
          THEN /\ regular_acc' = AccuracyOf(regular_results.answer_pairs, correct_count)
               /\ qpc' = "acc_rag"
               /\ acc_i' = 1
               /\ UNCHANGED rag_acc
          ELSE /\ rag_acc' = AccuracyOf(rag_results.answer_pairs, correct_count)
               /\ qpc' = "compare"
               /\ acc_i' = 0
               /\ UNCHANGED regular_acc
    /\ correct_count' = 0
    /\ UNCHANGED <<qa_samples, answer_pairs, regular_results, rag_results, judged,
                   relDivisor, qerr>>
    /\ UNCHANGED <<pollVars, envModelId, ragVars, judgeVars, setupVars>>

\* the performance comparison (lines 220-229)
RunCompare ==
    /\ qpc = "compare"
    /\ LET regular_percentage == regular_acc.percentage
           rag_percentage == rag_acc.percentage
       IN  IF Greater(rag_percentage, regular_percentage)
              THEN \* improvement / regular_percentage * 100
                   /\ relDivisor' = regular_percentage
                   /\ IF regular_percentage.num = 0
                         THEN qpc' = "raised" /\ qerr' = "ZeroDivisionError"
                         ELSE qpc' = "done" /\ qerr' = qerr
           ELSE IF Greater(regular_percentage, rag_percentage)
              THEN \* decline / regular_percentage * 100
                   /\ relDivisor' = regular_percentage
                   /\ IF regular_percentage.num = 0
                         THEN qpc' = "raised" /\ qerr' = "ZeroDivisionError"
                         ELSE qpc' = "done" /\ qerr' = qerr
           ELSE /\ qpc' = "done"
                /\ UNCHANGED <<relDivisor, qerr>>
    /\ UNCHANGED <<qa_samples, answer_pairs, regular_results, rag_results,
                   acc_i, correct_count, judged, regular_acc, rag_acc>>
    /\ UNCHANGED <<pollVars, envModelId, ragVars, judgeVars, setupVars>>

InitQa ==
    /\ PollIdle
    /\ envModelId = NoneVal
    /\ RagIdle
    /\ JudgeIdle
    /\ SetupIdle
    /\ qpc = "eval_regular"
    /\ qa_samples \in SampleLists
    /\ answer_pairs = <<>>
    /\ regular_results = EmptyResults
    /\ rag_results = EmptyResults
    /\ acc_i = 0
    /\ correct_count = 0
    /\ judged = <<>>
    /\ regular_acc = NoAccuracy
    /\ rag_acc = NoAccuracy
    /\ relDivisor = NoDivisor
    /\ qerr = "none"

NextQa ==
    \/ EvalStep
    \/ EvalReturn
    \/ AccStep
    \/ AccReturn
    \/ RunCompare

SpecQa == InitQa /\ [][NextQa]_vars

\* ------------------------------------------------------------------------
\* Claims about run_qa_test (checked under SpecQa)
\* ------------------------------------------------------------------------
\* C19: whatever the two correct-counts are, the performance comparison ends
\* without a division by zero: the relative improvement or decline is computed
\* only with a regular accuracy that is not zero as divisor.
C19_NoDivisionByZero ==
    /\ qerr # "ZeroDivisionError"
    /\ relDivisor # NoDivisor => relDivisor.num # 0

\* the pairs for which the generator gave an answer
Answered(pairs) == {k \in 1 .. Len(pairs) : pairs[k].gemma_answer # NoResponseText}

\* the comparisons calculate_accuracy asked of the judge for one evaluation
JudgedOf(mode) == {j \in 1 .. Len(judged) : judged[j].mode = mode}

CorrectOf(mode) == {j \in JudgedOf(mode) : judged[j].verdict = "CORRECT"}

\* the first pairs are the pairs of the first samples, in the order of the samples
PairsFollowSamples(pairs) ==
    /\ Len(pairs) <= Len(qa_samples)
    /\ \A k \in 1 .. Len(pairs) :
          /\ pairs[k].question = qa_samples[k].question
          /\ pairs[k].correct_answer = qa_samples[k].answer
          /\ pairs[k].gemma_answer \in (Answers \ {NoneVal, ""}) \cup {NoResponseText}

\* what evaluate_with_ollama returned holds one pair for each sample
OnePairPerSample(res) ==
    /\ PairsFollowSamples(res.answer_pairs)
    /\ Len(res.answer_pairs) = Len(qa_samples)
    /\ res.total_questions = Len(qa_samples)

\* what calculate_accuracy returned for an evaluation
AccuracyWithinBounds(mode, res, acc) ==
    /\ acc.total = Len(res.answer_pairs)
    /\ acc.correct = Cardinality(CorrectOf(mode))
    /\ Cardinality(JudgedOf(mode)) = Cardinality(Answered(res.answer_pairs))
    /\ 0 <= acc.correct
    /\ acc.correct <= Cardinality(Answered(res.answer_pairs))
    /\ Cardinality(Answered(res.answer_pairs)) <= acc.total

\* C20: evaluate_with_ollama gives one answer pair for each sample, in the
\* order of the samples, with "[NO RESPONSE]" where no answer came;
\* calculate_accuracy sends no "[NO RESPONSE]" pair to the judge, counts every
\* pair in total_questions, and adds to correct_count for a CORRECT verdict
\* only, so that 0 <= correct_count <= answered pairs <= total_questions.
C20_PairsAndCounts ==
    /\ PairsFollowSamples(answer_pairs)
    /\ qpc # "eval_regular" => OnePairPerSample(regular_results)
    /\ qpc \notin {"eval_regular", "eval_rag"} => OnePairPerSample(rag_results)
    /\ \A j \in 1 .. Len(judged) :
          /\ judged[j].gemma_answer # NoResponseText
          /\ judged[j].gemma_answer =
                (IF judged[j].mode = "acc_regular"
                    THEN regular_results ELSE rag_results).answer_pairs[judged[j].i].gemma_answer
    /\ qpc \in {"acc_regular", "acc_rag"} =>
          /\ correct_count = Cardinality(CorrectOf(qpc))
          /\ Cardinality(JudgedOf(qpc)) =
                Cardinality({k \in Answered(CurrentResults.answer_pairs) : k < acc_i})
          /\ correct_count <= Cardinality(JudgedOf(qpc))
    /\ qpc \in {"acc_rag", "compare", "done", "raised"} =>
          AccuracyWithinBounds("acc_regular", regular_results, regular_acc)
    /\ qpc \in {"compare", "done", "raised"} =>
          AccuracyWithinBounds("acc_rag", rag_results, rag_acc)

C20_Witness ==
    /\ qpc = "done"
    /\ Len(qa_samples) = 2
    /\ regular_results.answer_pairs[1].gemma_answer = NoResponseText
    /\ regular_acc.total = 2
    /\ regular_acc.correct = 1
    /\ rag_acc.correct = 0
    /\ \E j \in JudgedOf("acc_rag") : judged[j].verdict = "INCORRECT"
    /\ \E j \in JudgedOf("acc_rag") : judged[j].verdict = "ERROR"

\* ------------------------------------------------------------------------
\* Claims about total_ingested (checked under Spec)
\* ------------------------------------------------------------------------
\* the documents of the bulk requests whose outcome is one of `outcomes`
RECURSIVE SubmittedWith(_, _)
SubmittedWith(log, outcomes) ==
    IF log = <<>> THEN 0
    ELSE (IF Head(log).outcome \in outcomes THEN Head(log).size ELSE 0)
         + SubmittedWith(Tail(log), outcomes)

\* total_ingested is the number of documents of the batches answered without
\* the errors flag, and no more than the documents submitted
IngestedIsSumOfCleanBatches ==
    /\ total_ingested = SubmittedWith(bulkLog, {"ok"})
    /\ total_ingested <= SubmittedWith(bulkLog, {"ok", "errors", "raise"})
    /\ SubmittedWith(bulkLog, {"ok", "errors", "raise"}) <= numDocs
    /\ total_ingested >= 0

\* C21: total_ingested, and so the count reported at the end, is the sum of
\* the sizes of exactly the batches whose bulk response had no errors flag: a
\* batch whose response reports errors adds nothing, whatever part of it was
\* indexed; the count never exceeds the documents submitted and never goes
\* down from one batch to the next.
C21_TotalIngested ==
    /\ []IngestedIsSumOfCleanBatches
    /\ [][total_ingested' >= total_ingested]_vars
    /\ [][(Len(bulkLog') > Len(bulkLog) /\ bulkLog'[Len(bulkLog')].outcome # "ok")
            => total_ingested' = total_ingested]_vars

C21_Witness ==
    /\ spc = "done"
    /\ numDocs = 2 * BatchSize + 1
    /\ Len(bulkLog) = 3
    /\ bulkLog[1].outcome = "ok"
    /\ bulkLog[2].outcome = "errors"
    /\ bulkLog[3].outcome = "ok"
    /\ total_ingested = BatchSize + 1

====
